---- MODULE Spec2Model ----
(***************************************************************************)
(* The ingestion pipeline of the FileSense desktop shell                   *)
(* (senses/filesense-app/src-tauri/src/main.rs): the shared status record  *)
(* behind one mutex, the four commands that touch it (start_watching,      *)
(* stop_watching, scan_once, get_ingestion_status) and the background task *)
(* that start_watching spawns.  Every block that takes the mutex is one    *)
(* step; the file read and the awaited upload are steps of their own, so   *)
(* commands and other tasks interleave exactly where the code lets them.   *)
(* The directory walks of the shell (collect_files) and of the CLI         *)
(* (senses/filesense/src/main.rs: scan_once, scan_folder) are functions of *)
(* the tree they are given and run under a specification of their own.     *)
(***************************************************************************)
EXTENDS Naturals, Sequences, FiniteSets, TLC

\* Bounds of the model: how many times start_watching is invoked, and how
\* many files a collection can return.  The smaller pair bounds the
\* specifications of a single caller-started run.
MaxRuns == 2
MaxFiles == 2
OneRun == 1
OneFile == 1

\* Bounds of the walked trees: how many roots a walk is given, how many
\* entries a root directory lists and how many a subdirectory lists.
MaxRoots == 2
MaxEntries == 2
MaxSubEntries == 1

Tasks == 1..MaxRuns

VARIABLES
    runs_left,   \* how many more start_watching calls the frontend makes
    disk,        \* how many eligible files the watched folders can hold
    status,      \* the IngestionStatus behind the mutex
    pc,          \* per spawned task: where its body stands
    all_files,   \* per task: the collected list (paths are 1..n, in list order)
    idx,         \* per task: 1-based position of file_path in all_files
    outcome,     \* per task: how the attempt on file_path ended, until it is counted
    ev_total,    \* per task: total_files read for the event under construction
    ev_processed,\* per task: processed_files read for the event under construction
    emitted,     \* per task: how many "ingestion-progress" events it has emitted
    broke,       \* per task: its loop ended by the break of the cancellation check
    counted,     \* per task: how many processed_files increments it has performed
    stopped,     \* per task: stop_watching was called while the task was live
    window,      \* per task: the values held since its increment that fit its event
    totalWritten,\* some task has performed the post-collection total_files write
    anyFailed,   \* some attempt so far ended in a read error, a transport error or a rejection
    folders,     \* the roots handed to a walk: what the filesystem holds under each
    collected,   \* the desktop shell's walk: the paths gathered into all_files
    ingested,    \* the CLI's walk: the paths handed to ingest_file
    scan_result, \* the CLI's walk: what scan_once returned
    walked       \* which of the two walks have run over folders

vars == <<runs_left, disk, status, pc, all_files, idx, outcome, ev_total, ev_processed, emitted,
          broke, counted, stopped, window, totalWritten, anyFailed,
          folders, collected, ingested, scan_result, walked>>

\* The variables of the two directory walks.
walk_vars == <<folders, collected, ingested, scan_result, walked>>

\* The variables of the status record, the commands and the tasks.
run_vars == <<runs_left, disk, status, pc, all_files, idx, outcome, ev_total, ev_processed,
              emitted, broke, counted, stopped, window, totalWritten, anyFailed>>

\* Option<String>: None is <<>>, Some(p) is <<p>>.
None == <<>>
Some(p) == <<p>>

\* main(): the status the application starts with.
InitialStatus ==
    [total_files |-> 0, processed_files |-> 0, current_file |-> None, is_running |-> FALSE]


\* The positions of a task's body.
LivePcs == {"collect", "set_total", "check", "begin", "read", "upload", "count",
            "emit_total", "emit_processed", "emit", "finish"}
\* Between the processed_files increment and the emission of its event.
WindowPcs == {"emit_total", "emit_processed", "emit"}

Live(t) == pc[t] \in LivePcs
LiveTasks == {t \in Tasks : Live(t)}

\* The file a task is on (file_path of the for loop).
file_path(t) == all_files[t][idx[t]]

\* What a collection can return: the filesystem decides, so any list of up
\* to MaxFiles paths.
Collected(n) == [i \in 1..n |-> i]

\* ---- the critical sections, as functions of the status record ----

\* start_watching, lines 104-109.
set_running(s) ==
    [s EXCEPT !.is_running = TRUE, !.total_files = 0, !.processed_files = 0]

\* task, lines 127-130.
update_total(s, n) == [s EXCEPT !.total_files = n]

\* task, lines 145-148.
set_current(s, p) == [s EXCEPT !.current_file = Some(p)]

\* task, lines 209-212.
update_processed(s) == [s EXCEPT !.processed_files = s.processed_files + 1]

\* A task that ends without clearing the flag.
mark_complete_keeps_file(s) == [s EXCEPT !.is_running = FALSE]

mark_complete_keeps_running(s) == [s EXCEPT !.current_file = None]

\* task, lines 230-234.
mark_complete(s) == [s EXCEPT !.is_running = FALSE, !.current_file = None]

\* A stop that also throws the progress away.
request_stop_resets(s) == [s EXCEPT !.is_running = FALSE, !.processed_files = 0]

\* stop_watching, lines 290-291.
request_stop(s) == [s EXCEPT !.is_running = FALSE]

\* scan_once, lines 297-299.
reset_counts(s) == [s EXCEPT !.total_files = 0, !.processed_files = 0]

\* The payload of app.emit, lines 215-226: two separately locked reads, the
\* loop's own file_path, and the literal true.
progress_event(t) ==
    [total_files |-> ev_total[t], processed_files |-> ev_processed[t],
     current_file |-> Some(file_path(t)), is_running |-> TRUE]

\* ---- bookkeeping shared by the actions ----

\* Whether the pair w = <<total_files, processed_files>> agrees with every
\* field of an event that is already read at position p.
Fits(w, p, tot, proc) ==
    /\ p \in {"emit_processed", "emit"} => w[1] = tot
    /\ p = "emit" => w[2] = proc

\* Status value s as a candidate for task t's event: the event carries
\* Some(file_path) and true, so only such a value can equal it.
Seen(t, s) ==
    IF s.is_running /\ s.current_file = Some(file_path(t))
    THEN {<<s.total_files, s.processed_files>>}
    ELSE {}

\* window after a step: for a task between its increment and its emission,
\* the values the record has held since the increment that agree with the
\* event as far as it is read; pcn, sn, tot, proc are the step's results.
Observe(pcn, sn, tot, proc) ==
    [t \in Tasks |->
        IF pcn[t] \in WindowPcs
        THEN {w \in (IF pc[t] \in WindowPcs THEN window[t] ELSE {}) \cup Seen(t, sn) :
                 Fits(w, pcn[t], tot[t], proc[t])}
        ELSE {}]

Started ==
    /\ status = InitialStatus
    /\ pc = [t \in Tasks |-> "idle"]
    /\ all_files = [t \in Tasks |-> <<>>]
    /\ idx = [t \in Tasks |-> 1]
    /\ outcome = [t \in Tasks |-> "none"]
    /\ ev_total = [t \in Tasks |-> 0]
    /\ ev_processed = [t \in Tasks |-> 0]
    /\ emitted = [t \in Tasks |-> 0]
    /\ broke = [t \in Tasks |-> FALSE]
    /\ counted = [t \in Tasks |-> 0]
    /\ stopped = [t \in Tasks |-> FALSE]
    /\ window = [t \in Tasks |-> {}]
    /\ totalWritten = FALSE
    /\ anyFailed = FALSE

\* No walk has run.
Unwalked ==
    /\ collected = <<>>
    /\ ingested = <<>>
    /\ scan_result = "none"
    /\ walked = {}

Init ==
    runs_left = MaxRuns /\ disk = MaxFiles /\ Started /\ folders = <<>> /\ Unwalked
InitOneRun ==
    runs_left = OneRun /\ disk = MaxFiles /\ Started /\ folders = <<>> /\ Unwalked
InitSmall ==
    runs_left = OneRun /\ disk = OneFile /\ Started /\ folders = <<>> /\ Unwalked

\* ---- the directory walks ----

\* A walked path is the sequence of positions leading to it: the index of
\* the root in folders, then the index of each entry in its directory.  A
\* file name is the sequence of its characters.
FileNames ==
    { <<"a", ".", "t", "x", "t">>,
      <<"R", ".", "P", "D", "F">>,
      <<"c", ".", "j", "p", "g">>,
      <<"d", ".", "d", "o", "c">> }

\* What a path can turn out to be: a regular file, a directory whose
\* read_dir succeeds, a directory whose read_dir fails, a path that does not
\* exist, and, inside a listing, an entry whose DirEntry is an Err.
File(n) == [kind |-> "file", name |-> n, entries |-> <<>>]
Dir(es) == [kind |-> "dir", name |-> <<>>, entries |-> es]
Unreadable == [kind |-> "unreadable", name |-> <<>>, entries |-> <<>>]
Missing == [kind |-> "missing", name |-> <<>>, entries |-> <<>>]
EntryError == [kind |-> "entry_error", name |-> <<>>, entries |-> <<>>]

UpTo(S, n) == UNION {[1..k -> S] : k \in 0..n}
Files == {File(n) : n \in FileNames}
SubDirs == {Dir(es) : es \in UpTo(Files \cup {EntryError}, MaxSubEntries)} \cup {Unreadable}
RootDirs ==
    {Dir(es) : es \in UpTo(Files \cup SubDirs \cup {EntryError}, MaxEntries)}
        \cup {Unreadable}
FolderLists == UNION {[1..k -> RootDirs \cup Files \cup {Missing}] : k \in 1..MaxRoots}

\* str::ends_with.
ends_with(s, suffix) ==
    /\ Len(s) >= Len(suffix)
    /\ SubSeq(s, Len(s) - Len(suffix) + 1, Len(s)) = suffix

\* Desktop shell, lines 281-286: four suffix tests on the path as it is.
is_supported_file(path) ==
    \/ ends_with(path, <<".", "p", "d", "f">>)
    \/ ends_with(path, <<".", "d", "o", "c", "x">>)
    \/ ends_with(path, <<".", "t", "x", "t">>)
    \/ ends_with(path, <<".", "m", "d">>)

\* str::to_lowercase on ASCII letters.
Upper ==
    <<"A", "B", "C", "D", "E", "F", "G", "H", "I", "J", "K", "L", "M",
      "N", "O", "P", "Q", "R", "S", "T", "U", "V", "W", "X", "Y", "Z">>
Lower ==
    <<"a", "b", "c", "d", "e", "f", "g", "h", "i", "j", "k", "l", "m",
      "n", "o", "p", "q", "r", "s", "t", "u", "v", "w", "x", "y", "z">>
to_lowercase(s) ==
    [i \in 1..Len(s) |->
        IF \E k \in 1..Len(Upper) : Upper[k] = s[i]
        THEN Lower[CHOOSE k \in 1..Len(Upper) : Upper[k] = s[i]]
        ELSE s[i]]

\* Path::extension: what follows the last dot of the file name, and None
\* when there is no dot or the only dot is the first character.
extension(name) ==
    LET dots == {i \in 1..Len(name) : name[i] = "."}
        last == CHOOSE d \in dots : \A e \in dots : e <= d
    IN  IF dots = {} THEN None
        ELSE IF last = 1 THEN None
        ELSE Some(SubSeq(name, last + 1, Len(name)))

\* CLI, lines 160-167: the lower-cased extension against five names.
should_process(name) ==
    LET ext == extension(name)
    IN  IF ext # None
        THEN to_lowercase(ext[1]) \in
                 { <<"t", "x", "t">>, <<"m", "d">>, <<"p", "d", "f">>,
                   <<"d", "o", "c">>, <<"d", "o", "c", "x">> }
        ELSE FALSE

\* Result<Vec<String>, io::Error>, and for the CLI the Result together with
\* the files already handed on when it was returned.
Walked(ok, files) == [ok |-> ok, files |-> files]

RECURSIVE collect_files(_, _)
RECURSIVE collect_entries(_, _, _, _)

\* Desktop shell, lines 243-278.
collect_files(node, path) ==
    IF node.kind = "file"
    THEN Walked(TRUE, IF is_supported_file(node.name) THEN <<path>> ELSE <<>>)
    ELSE IF node.kind = "unreadable" THEN Walked(FALSE, <<>>)
    ELSE IF node.kind = "dir" THEN collect_entries(node.entries, path, 1, <<>>)
    ELSE Walked(TRUE, <<>>)

\* Lines 257-274: the loop over the listing, from entry i on, files being
\* the vector so far.  An Err entry returns from collect_files (line 258); a
\* subdirectory's Err is dropped (line 269).
collect_entries(es, path, i, files) ==
    IF i > Len(es) THEN Walked(TRUE, files)
    ELSE LET entry_path == Append(path, i)
         IN  IF es[i].kind = "entry_error" THEN Walked(FALSE, <<>>)
             ELSE IF es[i].kind = "file"
             THEN collect_entries(es, path, i + 1,
                      IF is_supported_file(es[i].name)
                      THEN Append(files, entry_path) ELSE files)
             ELSE LET subfiles == collect_files(es[i], entry_path)
                  IN  collect_entries(es, path, i + 1,
                          IF subfiles.ok THEN files \o subfiles.files ELSE files)

RECURSIVE collect_all(_, _, _)

\* Lines 118-124: the task's loop over folders, from root i on.
collect_all(fs, i, all) ==
    IF i > Len(fs) THEN all
    ELSE LET files == collect_files(fs[i], <<i>>)
         IN  collect_all(fs, i + 1, IF files.ok THEN all \o files.files ELSE all)

RECURSIVE scan_folder(_, _, _)
RECURSIVE scan_entries(_, _, _, _)

\* CLI, lines 138-158; done is what has been handed to ingest_file so far.
scan_folder(node, path, done) ==
    IF node.kind = "dir" THEN scan_entries(node.entries, path, 1, done)
    ELSE Walked(FALSE, done)

\* Lines 142-155: the loop over the listing, from entry i on.  An Err entry
\* (line 143) and a subdirectory's Err (line 147) both return from
\* scan_folder; an ingest_file error is printed (lines 150-152).
scan_entries(es, path, i, done) ==
    IF i > Len(es) THEN Walked(TRUE, done)
    ELSE LET entry_path == Append(path, i)
         IN  IF es[i].kind = "entry_error" THEN Walked(FALSE, done)
             ELSE IF es[i].kind \in {"dir", "unreadable"}
             THEN LET sub == scan_folder(es[i], entry_path, done)
                  IN  IF sub.ok THEN scan_entries(es, path, i + 1, sub.files)
                      ELSE sub
             ELSE scan_entries(es, path, i + 1,
                      IF should_process(es[i].name)
                      THEN Append(done, entry_path) ELSE done)

RECURSIVE cli_scan_once(_, _, _)

\* CLI, lines 121-136: the loop over config.folders, from root i on.  A root
\* that does not exist is skipped (lines 126-129); an Err of scan_folder
\* returns from scan_once (line 131).
cli_scan_once(fs, i, done) ==
    IF i > Len(fs) THEN Walked(TRUE, done)
    ELSE IF fs[i].kind = "missing" THEN cli_scan_once(fs, i + 1, done)
    ELSE LET scanned == scan_folder(fs[i], <<i>>, done)
         IN  IF scanned.ok THEN cli_scan_once(fs, i + 1, scanned.files)
             ELSE scanned

\* ---- the status mutex ----

guard_held_over_upload(p) == p \in {"read", "upload"}

\* Whether a task at position p holds a guard of the status mutex.  Every
\* lock() of the task sits in a block of its own (lines 127-130, 137-143,
\* 145-148, 209-212, 230-234) or in one expression (lines 218, 219), and
\* the guard is dropped where that block or expression ends, so no position
\* between two steps holds one.
guard_held(p) == FALSE

\* status.lock() returns once no guard is alive.
LockFree == \A t \in Tasks : ~guard_held(pc[t])

\* ---- the commands ----

\* start_watching: resets the status, spawns the task, returns Ok(()).
start_watching ==
    \E t \in Tasks :
        /\ LockFree
        /\ runs_left > 0
        /\ pc[t] = "idle"
        /\ \A u \in Tasks : u < t => pc[u] # "idle"
        /\ runs_left' = runs_left - 1
        /\ status' = set_running(status)
        /\ pc' = [pc EXCEPT ![t] = "collect"]
        /\ window' = Observe(pc', status', ev_total, ev_processed)
        /\ UNCHANGED <<walk_vars, disk, all_files, idx, outcome, ev_total, ev_processed,
                       emitted, broke, counted, stopped, totalWritten, anyFailed>>

\* Line 239: start_watching returns Ok(()) on its only path.
start_watching_result(s) == "Ok"

\* Line 292: stop_watching returns Ok(()) on its only path.
stop_watching_result(s) == "Ok"

\* stop_watching: clears is_running, returns Ok(()).
stop_watching ==
    /\ LockFree
    /\ status' = request_stop(status)
    /\ stopped' = [t \in Tasks |-> stopped[t] \/ Live(t)]
    /\ window' = Observe(pc, status', ev_total, ev_processed)
    /\ UNCHANGED <<walk_vars, runs_left, disk, pc, all_files, idx, outcome, ev_total,
                   ev_processed, emitted, broke, counted, totalWritten, anyFailed>>

\* scan_once: zeroes both counters, returns Ok(()).
scan_once ==
    /\ LockFree
    /\ status' = reset_counts(status)
    /\ window' = Observe(pc, status', ev_total, ev_processed)
    /\ UNCHANGED <<walk_vars, runs_left, disk, pc, all_files, idx, outcome, ev_total,
                   ev_processed, emitted, broke, counted, stopped,
                   totalWritten, anyFailed>>

\* get_ingestion_status: returns a clone of the record.
get_ingestion_status ==
    /\ LockFree
    /\ UNCHANGED <<walk_vars, runs_left, disk, status, pc, all_files, idx, outcome,
                   ev_total, ev_processed, emitted, broke, counted, stopped,
                   window, totalWritten, anyFailed>>

\* ---- the background task ----

\* Lines 118-124: the collection; the list is whatever the filesystem holds.
TaskCollect(t) ==
    /\ pc[t] = "collect"
    /\ \E n \in 0..disk : all_files' = [all_files EXCEPT ![t] = Collected(n)]
    /\ pc' = [pc EXCEPT ![t] = "set_total"]
    /\ UNCHANGED <<walk_vars, runs_left, disk, status, idx, outcome, ev_total,
                   ev_processed, emitted, broke, counted, stopped, window,
                   totalWritten, anyFailed>>

\* Lines 127-130: total_files = all_files.len().
TaskSetTotal(t) ==
    /\ pc[t] = "set_total"
    /\ LockFree
    /\ status' = update_total(status, Len(all_files[t]))
    /\ pc' = [pc EXCEPT ![t] = "check"]
    /\ totalWritten' = TRUE
    /\ window' = Observe(pc', status', ev_total, ev_processed)
    /\ UNCHANGED <<walk_vars, runs_left, disk, all_files, idx, outcome, ev_total,
                   ev_processed, emitted, broke, counted, stopped, anyFailed>>

\* Whether the cancellation check of lines 137-143 breaks out of the loop.
stop_requested(s) == ~s.is_running

\* Lines 135-143: the loop head (the list may be exhausted) and the check.
TaskCheck(t) ==
    /\ pc[t] = "check"
    /\ IF idx[t] > Len(all_files[t])
       THEN pc' = [pc EXCEPT ![t] = "finish"] /\ UNCHANGED broke
       ELSE /\ LockFree
            /\ IF stop_requested(status)
               THEN /\ pc' = [pc EXCEPT ![t] = "finish"]
                    /\ broke' = [broke EXCEPT ![t] = TRUE]
               ELSE pc' = [pc EXCEPT ![t] = "begin"] /\ UNCHANGED broke
    /\ UNCHANGED <<walk_vars, runs_left, disk, status, all_files, idx, outcome, ev_total,
                   ev_processed, emitted, counted, stopped, window,
                   totalWritten, anyFailed>>

\* Lines 145-148: current_file = Some(file_path).
TaskBegin(t) ==
    /\ pc[t] = "begin"
    /\ LockFree
    /\ status' = set_current(status, file_path(t))
    /\ pc' = [pc EXCEPT ![t] = "read"]
    /\ window' = Observe(pc', status', ev_total, ev_processed)
    /\ UNCHANGED <<walk_vars, runs_left, disk, all_files, idx, outcome, ev_total,
                   ev_processed, emitted, broke, counted, stopped,
                   totalWritten, anyFailed>>

\* A read error that ends the run (a `?` or a break in place of the if-let).
after_read_error_aborts == "finish"

\* Where the loop body goes when fs::read fails: the if-let of line 153 has
\* no else, so it falls through to the count of line 209.
after_read_error == "count"

\* Line 153: fs::read; on Ok the request is built and sent.
TaskRead(t) ==
    /\ pc[t] = "read"
    /\ \/ /\ pc' = [pc EXCEPT ![t] = "upload"]
          /\ outcome' = [outcome EXCEPT ![t] = "none"]
       \/ /\ pc' = [pc EXCEPT ![t] = after_read_error]
          /\ outcome' = [outcome EXCEPT ![t] = "read_error"]
    /\ UNCHANGED <<walk_vars, runs_left, disk, status, all_files, idx, ev_total,
                   ev_processed, emitted, broke, counted, stopped, window,
                   totalWritten, anyFailed>>

\* What send().await can come back with, lines 186-205.
after_upload_retries(o) == IF o = "transport_error" THEN "read" ELSE "count"

UploadOutcomes == {"success", "rejected", "transport_error"}

\* Where the loop body goes after the match of lines 186-205: every arm only
\* prints.
after_upload(o) == "count"

\* Lines 186-205: the awaited request returns.
TaskUpload(t) ==
    /\ pc[t] = "upload"
    /\ \E o \in UploadOutcomes :
        /\ outcome' = [outcome EXCEPT ![t] = o]
        /\ pc' = [pc EXCEPT ![t] = after_upload(o)]
    /\ UNCHANGED <<walk_vars, runs_left, disk, status, all_files, idx, ev_total,
                   ev_processed, emitted, broke, counted, stopped, window,
                   totalWritten, anyFailed>>

\* Lines 209-212: processed_files += 1.
TaskCount(t) ==
    /\ pc[t] = "count"
    /\ LockFree
    /\ status' = update_processed(status)
    /\ pc' = [pc EXCEPT ![t] = "emit_total"]
    /\ outcome' = [outcome EXCEPT ![t] = "none"]
    /\ anyFailed' = (anyFailed \/ outcome[t] # "success")
    /\ counted' = [counted EXCEPT ![t] = counted[t] + 1]
    /\ window' = Observe(pc', status', ev_total, ev_processed)
    /\ UNCHANGED <<walk_vars, runs_left, disk, all_files, idx, ev_total,
                   ev_processed, emitted, broke, stopped, totalWritten>>

\* Lines 216-219: the event's total_files, read under its own lock.
TaskEmitTotal(t) ==
    /\ pc[t] = "emit_total"
    /\ LockFree
    /\ ev_total' = [ev_total EXCEPT ![t] = status.total_files]
    /\ pc' = [pc EXCEPT ![t] = "emit_processed"]
    /\ window' = Observe(pc', status, ev_total', ev_processed)
    /\ UNCHANGED <<walk_vars, runs_left, disk, status, all_files, idx, outcome,
                   ev_processed, emitted, broke, counted, stopped, totalWritten, anyFailed>>

\* Lines 220-223: the event's processed_files, read under its own lock.
TaskEmitProcessed(t) ==
    /\ pc[t] = "emit_processed"
    /\ LockFree
    /\ ev_processed' = [ev_processed EXCEPT ![t] = status.processed_files]
    /\ pc' = [pc EXCEPT ![t] = "emit"]
    /\ window' = Observe(pc', status, ev_total, ev_processed')
    /\ UNCHANGED <<walk_vars, runs_left, disk, status, all_files, idx, outcome, ev_total,
                   emitted, broke, counted, stopped, totalWritten, anyFailed>>

\* Lines 215-227: app.emit, then the loop moves to the next file.
TaskEmit(t) ==
    /\ pc[t] = "emit"
    /\ emitted' = [emitted EXCEPT ![t] = emitted[t] + 1]
    /\ idx' = [idx EXCEPT ![t] = idx[t] + 1]
    /\ ev_total' = [ev_total EXCEPT ![t] = 0]
    /\ ev_processed' = [ev_processed EXCEPT ![t] = 0]
    /\ pc' = [pc EXCEPT ![t] = "check"]
    /\ window' = Observe(pc', status, ev_total', ev_processed')
    /\ UNCHANGED <<walk_vars, runs_left, disk, status, all_files, outcome, broke,
                   counted, stopped, totalWritten, anyFailed>>

\* Lines 230-234: is_running = false, current_file = None; the task ends.
TaskFinish(t) ==
    /\ pc[t] = "finish"
    /\ LockFree
    /\ status' = mark_complete(status)
    /\ pc' = [pc EXCEPT ![t] = "done"]
    /\ window' = Observe(pc', status', ev_total, ev_processed)
    /\ UNCHANGED <<walk_vars, runs_left, disk, all_files, idx, outcome, ev_total,
                   ev_processed, emitted, broke, counted, stopped,
                   totalWritten, anyFailed>>

TaskStep(t) ==
    \/ TaskCollect(t)
    \/ TaskSetTotal(t)
    \/ TaskCheck(t)
    \/ TaskBegin(t)
    \/ TaskRead(t)
    \/ TaskUpload(t)
    \/ TaskCount(t)
    \/ TaskEmitTotal(t)
    \/ TaskEmitProcessed(t)
    \/ TaskEmit(t)
    \/ TaskFinish(t)

Next ==
    \/ start_watching
    \/ stop_watching
    \/ scan_once
    \/ get_ingestion_status
    \/ \E t \in Tasks : TaskStep(t)

\* Any number of start_watching calls up to MaxRuns, interleaved with the
\* other commands and with the tasks.
Spec == Init /\ [][Next]_vars

\* Up to OneRun start_watching calls, interleaved with the other commands and
\* the tasks.
SpecOneRun == InitOneRun /\ [][Next]_vars

\* Up to OneRun calls over folders of up to OneFile files.  The runtime polls
\* every spawned task, and each request is assumed to return.
FairSpec == InitSmall /\ [][Next]_vars /\ \A t \in Tasks : WF_vars(TaskStep(t))

\* ---- the walks as steps ----

\* The desktop task's collection over folders.
CollectAll ==
    /\ "desktop" \notin walked
    /\ collected' = collect_all(folders, 1, <<>>)
    /\ walked' = walked \cup {"desktop"}
    /\ UNCHANGED <<run_vars, folders, ingested, scan_result>>

\* The CLI's scan_once over the same folders.
CliScan ==
    /\ "cli" \notin walked
    /\ LET scanned == cli_scan_once(folders, 1, <<>>)
       IN  /\ ingested' = scanned.files
           /\ scan_result' = IF scanned.ok THEN "Ok" ELSE "Err"
    /\ walked' = walked \cup {"cli"}
    /\ UNCHANGED <<run_vars, folders, collected>>

InitWalk ==
    /\ runs_left = 0 /\ disk = 0 /\ Started
    /\ folders \in FolderLists
    /\ Unwalked

NextWalk ==
    \/ CollectAll
    \/ CliScan

\* The two walks over every list of roots within the bounds.
SpecWalk == InitWalk /\ [][NextWalk]_vars

\* ---- the claims ----

\* C1: a start_watching call made while an earlier run's task has not
\* finished returns the "already running" error and leaves total_files and
\* processed_files as they were.
C1_StartWhileRunningRejected ==
    [][(start_watching /\ LiveTasks # {}) =>
          /\ start_watching_result(status) = "AlreadyRunning"
          /\ status'.total_files = status.total_files
          /\ status'.processed_files = status.processed_files]_vars

\* C2: at most one run's task is live at any time, so at most one upload is
\* in flight.
C2_SingleLiveRun ==
    /\ Cardinality(LiveTasks) <= 1
    /\ Cardinality({t \in Tasks : pc[t] = "upload"}) <= 1

\* C3: once a run has written total_files, processed_files <= total_files.
C3_ProcessedWithinTotal ==
    totalWritten => status.processed_files <= status.total_files

\* C4: when a run ends by exhausting its list, processed_files equals the
\* length of the list that run collected.
C4_ExhaustedRunCountsAll ==
    [][\A t \in Tasks :
          (TaskFinish(t) /\ ~broke[t]) =>
              status'.processed_files = Len(all_files[t])]_vars

\* C5: every started run's task reaches its end, and with it the status has
\* is_running = false.
C5_RunsTerminate ==
    \A t \in Tasks : (pc[t] # "idle") ~> (pc[t] = "done" /\ ~status.is_running)

\* C5 witness: a run stopped before its first per-file check, with files
\* collected, has ended having processed none of them.
C5_StoppedBeforeFirstFileEnded ==
    \E t \in Tasks :
        /\ pc[t] = "done" /\ broke[t] /\ stopped[t]
        /\ Len(all_files[t]) >= 1 /\ counted[t] = 0
        /\ ~status.is_running

\* C6: a run whose task was live when stop_watching was called breaks out
\* at its next per-file check.
C6_StoppedRunBreaksAtNextCheck ==
    [][\A t \in Tasks :
          (stopped[t] /\ TaskCheck(t) /\ idx[t] <= Len(all_files[t])) =>
              pc'[t] = "finish"]_vars

\* C7: stop_watching can be called in every state, returns Ok, sets
\* is_running = false, leaves the other three fields alone, and a second
\* call changes nothing more.
C7_StopOkFrameIdempotent ==
    /\ [](ENABLED stop_watching)
    /\ [][stop_watching =>
             /\ stop_watching_result(status) = "Ok"
             /\ status'.is_running = FALSE
             /\ status'.total_files = status.total_files
             /\ status'.processed_files = status.processed_files
             /\ status'.current_file = status.current_file
             /\ request_stop(status') = status']_vars

\* C7 witness: a stop has landed while the second file's upload is in
\* flight, with the first file counted.
C7_StoppedMidUpload ==
    \E t \in Tasks :
        /\ stopped[t] /\ pc[t] = "upload" /\ idx[t] = 2
        /\ ~status.is_running
        /\ status.processed_files = 1
        /\ status.current_file = Some(file_path(t))

\* C8: the event a task emits equals the status record as it stood at some
\* one instant between that task's increment and the emission.
C8_EventIsSnapshot ==
    [][\A t \in Tasks :
          TaskEmit(t) =>
              \E w \in window[t] :
                  progress_event(t) =
                      [total_files |-> w[1], processed_files |-> w[2],
                       current_file |-> Some(file_path(t)), is_running |-> TRUE]]_vars

\* C9: the i-th event of a run carries processed_files = i, and a run that
\* exhausts a list of N files has emitted N events.
C9_EventsNumbered ==
    /\ [][\A t \in Tasks :
             TaskEmit(t) =>
                 progress_event(t).processed_files = emitted[t] + 1]_vars
    /\ [](\A t \in Tasks :
            (pc[t] = "done" /\ ~broke[t]) => emitted[t] = Len(all_files[t]))

\* How many files task t has passed the cancellation check for.
Reached(t) ==
    IF pc[t] \in {"begin", "read", "upload", "count"} \cup WindowPcs
    THEN idx[t] ELSE idx[t] - 1

\* C10: whatever the outcome of a file's attempt, the task increments
\* processed_files exactly once for it, emits its event and goes on: the
\* loop ends only by exhausting the list or by the cancellation break.
C10_FailureNeverAborts ==
    /\ [](\A t \in Tasks :
            /\ pc[t] = "upload" => outcome[t] = "none"
            /\ pc[t] = "count" =>
                   outcome[t] \in UploadOutcomes \cup {"read_error"}
            /\ counted[t] = (IF pc[t] \in {"begin", "read", "upload", "count"}
                             THEN Reached(t) - 1 ELSE Reached(t))
            /\ emitted[t] = idx[t] - 1
            /\ pc[t] \in {"finish", "done"} =>
                   (broke[t] \/ idx[t] = Len(all_files[t]) + 1))
    /\ [][\A t \in Tasks :
             TaskCount(t) =>
                 status'.processed_files = status.processed_files + 1]_vars

\* C10 witness: a run in which an attempt failed has gone through its whole
\* list of two files, counting and announcing both.
C10_FailedFileStillCounted ==
    \E t \in Tasks :
        /\ anyFailed /\ pc[t] = "done" /\ ~broke[t]
        /\ Len(all_files[t]) = 2 /\ counted[t] = 2 /\ emitted[t] = 2


\* C13: the step that ends a run's loop, by exhaustion or by break, leaves
\* current_file = none and is_running = false in one write, and whenever no
\* task is live the record shows both.
C13_IdleRecordWhenNoTaskLive ==
    /\ [][\A t \in Tasks :
            TaskFinish(t) =>
                /\ status'.current_file = None
                /\ status'.is_running = FALSE
                /\ pc'[t] = "done"]_vars
    /\ [](LiveTasks = {} =>
            status.current_file = None /\ status.is_running = FALSE)

C13_RunEndedAfterUpload ==
    /\ LiveTasks = {}
    /\ \E t \in Tasks : pc[t] = "done" /\ counted[t] >= 1
    /\ status.current_file = None
    /\ status.is_running = FALSE


\* C14: between files, that is from the step that counts file i up to the
\* step that begins file i+1, the record shows current_file = none.
C14_NoCurrentFileBetweenFiles ==
    \A t \in Tasks :
        (counted[t] >= 1 /\ pc[t] \in WindowPcs \cup {"check", "begin"})
            => status.current_file = None


\* The number of files of task t whose path has been written to current_file.
Written(t) ==
    IF pc[t] \in {"read", "upload", "count"} \cup WindowPcs
    THEN idx[t] ELSE idx[t] - 1

\* C15: whenever the record shows processed_files = k >= 1, some run has
\* already written its k-th file to current_file, and the record names that
\* file or the one after it, or none once no task is live.
C15_CountNeverAheadOfCurrentFile ==
    status.processed_files >= 1 =>
        \E t \in Tasks :
            /\ status.processed_files <= Written(t)
            /\ \/ status.current_file = Some(all_files[t][status.processed_files])
               \/ /\ status.processed_files < Len(all_files[t])
                  /\ status.current_file =
                         Some(all_files[t][status.processed_files + 1])
               \/ status.current_file = None /\ LiveTasks = {}


C17_CountersOwnedByRun ==
    /\ [][status'.processed_files < status.processed_files
             => start_watching]_vars
    /\ [][((scan_once \/ stop_watching \/ get_ingestion_status)
              /\ LiveTasks # {}) =>
             /\ status'.total_files = status.total_files
             /\ status'.processed_files = status.processed_files]_vars


\* The task's positions in the order the code runs them within one
\* iteration, with the positions before the loop first and after it last.
PcOrder ==
    <<"idle", "collect", "set_total", "check", "begin", "read", "upload",
      "count", "emit_total", "emit_processed", "emit", "finish", "done">>

Pos(p) == CHOOSE k \in 1..Len(PcOrder) : PcOrder[k] = p

\* C18: a task only moves forward through the list: every step either goes
\* on to a later position of the same file or, once that file is counted and
\* announced, to the next file, so no file is read or sent twice and no file
\* is begun before the one before it was attempted and counted; the one
\* request for a file is the step from the read to the upload.
C18_OneAttemptPerFileInOrder ==
    /\ [][\A t \in Tasks :
            pc'[t] # pc[t] =>
                \/ idx'[t] = idx[t] /\ Pos(pc'[t]) > Pos(pc[t])
                \/ /\ idx'[t] = idx[t] + 1
                   /\ pc[t] = "emit" /\ pc'[t] = "check"
                   /\ counted[t] = idx[t]]_vars
    /\ [][\A t \in Tasks :
            /\ (pc'[t] = "upload" /\ pc[t] # "upload") =>
                   pc[t] = "read" /\ counted[t] = idx[t] - 1
            /\ TaskBegin(t) =>
                   /\ counted[t] = idx[t] - 1
                   /\ status'.current_file = Some(all_files[t][idx[t]])
            /\ TaskUpload(t) => pc'[t] = "count"]_vars

C18_SecondFileAfterFailedFirst ==
    \E t \in Tasks :
        /\ anyFailed
        /\ pc[t] = "upload"
        /\ idx[t] = 2
        /\ counted[t] = 1
        /\ emitted[t] = 1


\* C19: a task leaves its loop by the break only if stop_watching was called
\* while that task was live, and a task that ends with no such call has
\* attempted and counted every file it collected.
C19_OnlyOwnStopEndsRunEarly ==
    \A t \in Tasks :
        /\ broke[t] => stopped[t]
        /\ (pc[t] = "done" /\ ~stopped[t]) => counted[t] = Len(all_files[t])


RECURSIVE FilesUnder(_, _)

\* The files under a node, each as <<path, name>>: the node itself when it
\* is a file, and the files under every entry of a listable directory.
FilesUnder(node, path) ==
    IF node.kind = "file" THEN {<<path, node.name>>}
    ELSE IF node.kind = "dir"
    THEN UNION {FilesUnder(node.entries[i], Append(path, i)) :
                    i \in 1..Len(node.entries)}
    ELSE {}

RECURSIVE Faulty(_)

\* Some read under the node fails.
Faulty(node) ==
    \/ node.kind \in {"unreadable", "entry_error"}
    \/ \E i \in 1..Len(node.entries) : Faulty(node.entries[i])

\* The extension, lower-cased, is one of exts.
HasExtension(name, exts) ==
    /\ extension(name) # None
    /\ to_lowercase(extension(name)[1]) \in exts

DesktopExtensions ==
    { <<"p", "d", "f">>, <<"d", "o", "c", "x">>, <<"t", "x", "t">>, <<"m", "d">> }
CliExtensions == DesktopExtensions \cup { <<"d", "o", "c">> }

\* The paths under the roots fs whose name has one of exts.
Eligible(fs, exts) ==
    {f[1] : f \in {g \in UNION {FilesUnder(fs[i], <<i>>) : i \in 1..Len(fs)} :
                       HasExtension(g[2], exts)}}

Range(s) == {s[i] : i \in 1..Len(s)}

\* C11: over roots where every read succeeds, each walk selects exactly the
\* files under the roots whose extension, compared without regard to case,
\* is in its supported set: .pdf, .docx, .txt, .md for the desktop shell,
\* and .doc as well for the CLI (whose roots are directories).
C11_SelectsBySupportedExtension ==
    (\A i \in 1..Len(folders) : ~Faulty(folders[i])) =>
        /\ "desktop" \in walked =>
               Range(collected) = Eligible(folders, DesktopExtensions)
        /\ ("cli" \in walked /\ \A i \in 1..Len(folders) : folders[i].kind # "file") =>
               Range(ingested) = Eligible(folders, CliExtensions)


\* A directory that lists in full: read_dir succeeds and no entry is an Err.
Readable(node) ==
    /\ node.kind = "dir"
    /\ \A i \in 1..Len(node.entries) : node.entries[i].kind # "entry_error"

RECURSIVE FilesUnderReadable(_, _)

\* The files, each as <<path, name>>, that only readable directories lead to.
FilesUnderReadable(node, path) ==
    IF node.kind = "file" THEN {<<path, node.name>>}
    ELSE IF Readable(node)
    THEN UNION {FilesUnderReadable(node.entries[i], Append(path, i)) :
                    i \in 1..Len(node.entries)}
    ELSE {}

\* C12: whatever read fails on some root or subdirectory, every file that
\* the walk's own filter accepts and that only readable directories lead to
\* is collected by the desktop walk and handed to ingest_file by the CLI
\* (whose roots are directories).
C12_ReadFailureSparesSiblings ==
    /\ "desktop" \in walked =>
           \A i \in 1..Len(folders) :
               \A f \in FilesUnderReadable(folders[i], <<i>>) :
                   is_supported_file(f[2]) => f[1] \in Range(collected)
    /\ "cli" \in walked =>
           \A i \in 1..Len(folders) :
               folders[i].kind # "file" =>
                   \A f \in FilesUnderReadable(folders[i], <<i>>) :
                       should_process(f[2]) => f[1] \in Range(ingested)

====
